---- MODULE Spec2Model ----
(***************************************************************************)
(* Model of the internal diagnostics logger of the Application Insights    *)
(* JavaScript SDK (_InternalLogMessage, _InternalLogging), of its ledger   *)
(* of lost items (DataLossAnalyzer) and of the timer callback that drains  *)
(* the logger's queue (Initialization.pollInteralLogs).                    *)
(*                                                                         *)
(* A JavaScript string is modelled as the sequence of the pieces it was    *)
(* concatenated from ("a" + "b" is <<"a", "b">>), and the value undefined   *)
(* as the empty sequence: a string always has at least one piece.          *)
(* A message object is a heap cell: callers and the queue hold its         *)
(* identity, so a later mutation of message.message shows in the queue.    *)
(* The throttle messages logInternalMessage builds are equal objects that  *)
(* no caller holds; they share the one cell ThrottleObj.                   *)
(***************************************************************************)
EXTENDS Integers, Sequences, FiniteSets, TLC

\* ------------------------------------------------------------- bounds

\* Number of message objects the callers hold.
MaxObjs == 2
\* Largest number of pieces of a message text (base text plus prefixes).
MaxTextLen == 2
\* Largest throttle limit a caller sets.
MaxLimit == 2
\* Longest queue.
MaxQueueLen == 4
\* Longest call history kept by the window specification.
MaxCalls == 4
\* Largest number of items the Ledger counts as queued.
MaxItems == 3

\* ---------------------------------------------------------- constants

\* enum LoggingSeverity
CRITICAL == 0
WARNING == 1
LoggingSeverity == {CRITICAL, WARNING}

AiUserActionablePrefix == "AI: "
AiNonUserActionablePrefix == "AI (Internal): "
\* The initial value of MAX_INTERNAL_MESSAGE_LIMIT.
DefaultLimit == 25

\* The value undefined, as a string value.
Undefined == <<>>

\* Message objects held by callers; NullMessage stands for a null or
\* undefined reference passed as the message argument.
Objs == 1..MaxObjs
NullMessage == 0
ThrottleObj == MaxObjs + 1
\* The message objects reportLostItems builds are equal objects too; they
\* share the cell LedgerObj.
LedgerObj == MaxObjs + 2

\* Values of message.properties: the constructor's {} or a caller's object
\* (typeof "object"), or a caller's non-object value.
PropsObject == "{}"
PropsOther == "non-object"

\* The texts callers build messages from, and those they write to the console.
MsgTexts == {<<"error!">>, Undefined}
ConsoleTexts == {<<"error!">>, <<"warning!">>}

\* Arguments of setMaxInternalMessageLimit: numbers, null and undefined.
Num(n) == [kind |-> "number", n |-> n]
NoLimit == [kind |-> "undefined", n |-> 0]
NullLimit == [kind |-> "null", n |-> 0]
LimitArgs == {Num(n) : n \in (-1)..MaxLimit} \cup {NoLimit, NullLimit}

\* The host's console: absent, or an object with some of warn and log.
Consoles ==
    {[defined |-> FALSE, fns |-> {}]} \cup
    {[defined |-> TRUE, fns |-> f] : f \in {{"warn", "log"}, {"log"}, {}}}
BrowserConsole == [defined |-> TRUE, fns |-> {"warn", "log"}]

\* -------------------------------------------------------------- state

VARIABLES
    heap,                         \* message objects: [message, properties]
    queue,                        \* _InternalLogging.queue: object identities
    _messageCount,                \* _InternalLogging._messageCount
    MAX_INTERNAL_MESSAGE_LIMIT,   \* _InternalLogging.MAX_INTERNAL_MESSAGE_LIMIT
    enableDebugExceptions,        \* value of the predicate enableDebugExceptions()
    verboseLogging,               \* value of the predicate verboseLogging()
    console,                      \* the host's console object
    written,                      \* console lines written by the latest call
    last,                         \* the latest call: operation, arguments, what it threw
    sentinels,                    \* throttle messages queued since the latest reset
    reopened,                     \* the limit was set above the count after such a message
    eligible,                     \* CRITICAL or verbose records since the latest reset
    throttledBefore,              \* the latest reset found the throttle reached
    calls,                        \* window specification: the records so far
    storage,                      \* sessionStorage: the value kept under each key
    sessionStorage,               \* window.sessionStorage: the object and its functions
    ledgerEnabled,                \* DataLossAnalyzer.enabled
    appInsights,                  \* DataLossAnalyzer.appInsights
    reported,                     \* appInsights calls made by the latest call
    returned,                     \* the number the latest call returned
    threw,                        \* the calls of the host that threw in the latest call
    pc,                           \* pollInteralLogs: where its callback stands
    length,                       \* pollInteralLogs: the callback's `length`
    index,                        \* pollInteralLogs: the callback's `i`
    emitted,                      \* trackTrace calls made by the latest call
    atStart,                      \* the queue when the latest run of the callback started
    appended                      \* messages pushed and counted since the latest reset

logVars == <<heap, queue, _messageCount, MAX_INTERNAL_MESSAGE_LIMIT,
             enableDebugExceptions, verboseLogging, console>>
historyVars == <<sentinels, reopened, eligible, throttledBefore>>
ledgerVars == <<storage, sessionStorage, ledgerEnabled, appInsights, reported,
               returned, threw>>
drainVars == <<pc, length, index, emitted, atStart, appended>>
vars == <<logVars, written, last, historyVars, calls, ledgerVars, drainVars>>

\* The latest call.
Call(op, severity, message, limit, text, thrown) ==
    [op |-> op, severity |-> severity, message |-> message,
     limit |-> limit, text |-> text, thrown |-> thrown]

\* --------------------------------------------------- _InternalLogMessage

\* constructor(msg, properties): a falsy properties argument becomes {}.
_InternalLogMessage(msg, properties) ==
    [message |-> msg,
     properties |-> IF properties = "undefined" THEN PropsObject ELSE properties]

\* ------------------------------------------------------ _InternalLogging

\* warnToConsole(message): the lines it writes.
Mut_WarnOnly(message) ==
    IF console.defined /\ "warn" \in console.fns
    THEN <<[fn |-> "warn", text |-> message]>>
    ELSE <<>>
warnToConsole(message) ==
    IF console.defined
    THEN IF "warn" \in console.fns
         THEN <<[fn |-> "warn", text |-> message]>>
         ELSE IF "log" \in console.fns
              THEN <<[fn |-> "log", text |-> message]>>
              ELSE <<>>
    ELSE <<>>

\* _areInternalMessagesThrottled()
Mut_areThrottledStrict == _messageCount > MAX_INTERNAL_MESSAGE_LIMIT
_areInternalMessagesThrottled == _messageCount >= MAX_INTERNAL_MESSAGE_LIMIT

\* The condition under which logInternalMessage pushes the message.
Mut_PushesAlways(severity) == TRUE
Mut_PushesCriticalOnly(severity) == severity = CRITICAL
PushesMessage(severity) == verboseLogging \/ severity = CRITICAL

\* The count after the test of the push: _messageCount++ follows the push.
Mut_CountsEveryCall(pushed, count) == count + 1
Counted(pushed, count) == IF pushed THEN count + 1 ELSE count

\* The condition under which logInternalMessage sends the throttle message,
\* on the count after the push.
LimitReached(count) == count = MAX_INTERNAL_MESSAGE_LIMIT

\* The text of the throttle message.
throttleLimitMessage ==
    <<AiNonUserActionablePrefix,
      "Internal events throttle limit per PageView reached for this app.">>

\* logInternalMessage(severity, message): its effect on the queue, the count,
\* the heap and the console; `h` is the heap and `pre` the console lines the
\* caller leaves.
LogInternalMessageEffect(severity, message, h, pre) ==
    IF _areInternalMessagesThrottled
    THEN /\ queue' = queue
         /\ _messageCount' = _messageCount
         /\ heap' = h
         /\ written' = pre
    ELSE LET pushed == PushesMessage(severity)
             q1 == IF pushed THEN Append(queue, message) ELSE queue
             c1 == Counted(pushed, _messageCount)
         IN  IF LimitReached(c1)
             THEN /\ queue' = Append(q1, ThrottleObj)
                  /\ _messageCount' = c1
                  /\ heap' = [h EXCEPT ![ThrottleObj] =
                                 _InternalLogMessage(throttleLimitMessage, "undefined")]
                  /\ written' = pre \o warnToConsole(throttleLimitMessage)
             ELSE /\ queue' = q1
                  /\ _messageCount' = c1
                  /\ heap' = h
                  /\ written' = pre

\* logInternalMessage called directly (it is public).
logInternalMessage(severity, message) ==
    /\ LogInternalMessageEffect(severity, message, heap, <<>>)
    /\ last' = Call("logInternalMessage", severity, message, NoLimit, Undefined, "nothing")
    /\ UNCHANGED <<MAX_INTERNAL_MESSAGE_LIMIT, enableDebugExceptions,
                   verboseLogging, console>>

\* The text of the console line of a message.
ConsoleText(m) ==
    IF m.properties = PropsObject
    THEN m.message \o <<" properties: ", "JSON.stringify(properties)">>
    ELSE m.message

\* prefix + message.message
Mut_PrefixedTwice(prefix, text) == <<prefix, prefix>> \o text
Prefixed(prefix, text) == <<prefix>> \o text

\* The test that makes the two calls throw the message.
Mut_NeverThrows == FALSE
ThrowsMessage == enableDebugExceptions

\* The body shared by throwInternalNonUserActionable and
\* throwInternalUserActionable, which differ in the prefix: its effect on the
\* heap `h` the caller leaves, the queue, the count and the console.
ThrowInternalEffect(h, prefix, severity, message) ==
    IF ThrowsMessage
    THEN /\ written' = <<>>
         /\ heap' = h
         /\ UNCHANGED <<queue, _messageCount>>
    ELSE IF message # NullMessage /\ h[message].message # Undefined
         THEN LET m == [h[message] EXCEPT
                           !.message = Prefixed(prefix, h[message].message)]
              IN  LogInternalMessageEffect(
                      severity, message, [h EXCEPT ![message] = m],
                      warnToConsole(ConsoleText(m)))
         ELSE /\ written' = <<>>
              /\ heap' = h
              /\ UNCHANGED <<queue, _messageCount>>

ThrowInternal(op, prefix, severity, message) ==
    /\ ThrowInternalEffect(heap, prefix, severity, message)
    /\ last' = Call(op, severity, message, NoLimit, Undefined,
                    IF ThrowsMessage THEN "message" ELSE "nothing")
    /\ UNCHANGED <<MAX_INTERNAL_MESSAGE_LIMIT, enableDebugExceptions,
                   verboseLogging, console>>

throwInternalNonUserActionable(severity, message) ==
    ThrowInternal("throwInternalNonUserActionable", AiNonUserActionablePrefix,
                  severity, message)

throwInternalUserActionable(severity, message) ==
    ThrowInternal("throwInternalUserActionable", AiUserActionablePrefix,
                  severity, message)

\* warnToConsole called directly.
Mut_WarnToConsoleQueues(message) ==
    /\ written' = warnToConsole(message)
    /\ queue' = Append(queue, ThrottleObj)
    /\ last' = Call("warnToConsole", CRITICAL, NullMessage, NoLimit, message, "nothing")
    /\ UNCHANGED <<heap, _messageCount, MAX_INTERNAL_MESSAGE_LIMIT,
                   enableDebugExceptions, verboseLogging, console>>
WarnToConsole(message) ==
    /\ written' = warnToConsole(message)
    /\ last' = Call("warnToConsole", CRITICAL, NullMessage, NoLimit, message, "nothing")
    /\ UNCHANGED logVars

\* resetInternalMessageCount()
Mut_ResetKeepsCount ==
    /\ _messageCount' = _messageCount
    /\ written' = <<>>
    /\ last' = Call("resetInternalMessageCount", CRITICAL, NullMessage, NoLimit,
                    Undefined, "nothing")
    /\ UNCHANGED <<heap, queue, MAX_INTERNAL_MESSAGE_LIMIT, enableDebugExceptions,
                   verboseLogging, console>>
resetInternalMessageCount ==
    /\ _messageCount' = 0
    /\ written' = <<>>
    /\ last' = Call("resetInternalMessageCount", CRITICAL, NullMessage, NoLimit,
                    Undefined, "nothing")
    /\ UNCHANGED <<heap, queue, MAX_INTERNAL_MESSAGE_LIMIT, enableDebugExceptions,
                   verboseLogging, console>>

\* !limit
Mut_FalsyUndefinedOnly(limit) == limit.kind # "number"
Falsy(limit) == limit.kind # "number" \/ limit.n = 0

\* setMaxInternalMessageLimit(limit)
setMaxInternalMessageLimit(limit) ==
    /\ written' = <<>>
    /\ IF Falsy(limit)
       THEN /\ last' = Call("setMaxInternalMessageLimit", CRITICAL, NullMessage,
                            limit, Undefined, "Error")
            /\ UNCHANGED MAX_INTERNAL_MESSAGE_LIMIT
       ELSE /\ last' = Call("setMaxInternalMessageLimit", CRITICAL, NullMessage,
                            limit, Undefined, "nothing")
            /\ MAX_INTERNAL_MESSAGE_LIMIT' = limit.n
    /\ UNCHANGED <<heap, queue, _messageCount, enableDebugExceptions,
                   verboseLogging, console>>

\* The tests' and the host's replacement of the two mode predicates.
SetEnableDebugExceptions(b) ==
    /\ b # enableDebugExceptions
    /\ enableDebugExceptions' = b
    /\ written' = <<>>
    /\ last' = Call("enableDebugExceptions=", CRITICAL, NullMessage, NoLimit,
                    Undefined, "nothing")
    /\ UNCHANGED <<heap, queue, _messageCount, MAX_INTERNAL_MESSAGE_LIMIT,
                   verboseLogging, console>>

SetVerboseLogging(b) ==
    /\ b # verboseLogging
    /\ verboseLogging' = b
    /\ written' = <<>>
    /\ last' = Call("verboseLogging=", CRITICAL, NullMessage, NoLimit,
                    Undefined, "nothing")
    /\ UNCHANGED <<heap, queue, _messageCount, MAX_INTERNAL_MESSAGE_LIMIT,
                   enableDebugExceptions, console>>

\* The tests' clearInternalLoggingQueue(): shifts every entry out.
clearInternalLoggingQueue ==
    /\ queue # <<>>
    /\ queue' = <<>>
    /\ written' = <<>>
    /\ last' = Call("clearInternalLoggingQueue", CRITICAL, NullMessage, NoLimit,
                    Undefined, "nothing")
    /\ UNCHANGED <<heap, _messageCount, MAX_INTERNAL_MESSAGE_LIMIT,
                   enableDebugExceptions, verboseLogging, console>>

\* ------------------------------------------------------ DataLossAnalyzer

LIMIT_PER_SESSION == 10
ITEMS_QUEUED_KEY == "AI_itemsQueued"
ISSUES_REPORTED_KEY == "AI_lossIssuesReported"
Keys == {ITEMS_QUEUED_KEY, ISSUES_REPORTED_KEY}

\* What getItem returns for a key without a value (null).
NoValue == <<>>

\* Stored values are strings of characters.
DigitChars == <<"0", "1", "2", "3", "4", "5", "6", "7", "8", "9">>
IsDigit(c) == \E d \in 1..10 : DigitChars[d] = c
DigitValue(c) == (CHOOSE d \in 1..10 : DigitChars[d] = c) - 1

\* n.toString() of an integer.
RECURSIVE toString(_)
toString(n) ==
    IF n < 0 THEN <<"-">> \o toString(-n)
    ELSE IF n < 10 THEN <<DigitChars[n + 1]>>
         ELSE toString(n \div 10) \o <<DigitChars[(n % 10) + 1]>>

\* The value of a string of digits.
RECURSIVE DigitsValue(_)
DigitsValue(s) ==
    IF Len(s) = 1 THEN DigitValue(s[1])
    ELSE 10 * DigitsValue(SubSeq(s, 1, Len(s) - 1)) + DigitValue(s[Len(s)])

IsDigits(s) == Len(s) >= 1 /\ \A i \in 1..Len(s) : IsDigit(s[i])

\* !isNaN(+s) for what getItem returned: null and the decimal integers.
IsNumeric(s) ==
    \/ s = NoValue
    \/ IsDigits(s)
    \/ Len(s) >= 2 /\ s[1] = "-" /\ IsDigits(Tail(s))

\* +s for what getItem returned.
ToNumber(s) ==
    IF s = NoValue THEN 0
    ELSE IF s[1] = "-" THEN 0 - DigitsValue(Tail(s))
         ELSE DigitsValue(s)

\* isNaN(+s) ? 0 : +s
ReadCounter(s) == IF IsNumeric(s) THEN ToNumber(s) ELSE 0

\* window.sessionStorage: absent, or an object with some of getItem and setItem.
Storages ==
    {[defined |-> FALSE, fns |-> {}]} \cup
    {[defined |-> TRUE, fns |-> f] : f \in SUBSET {"getItem", "setItem"}}
BrowserStorage == [defined |-> TRUE, fns |-> {"getItem", "setItem"}]

\* The calls of the host that may throw, by the place of the call.
Sites == {"getIssues", "getItems", "getItemsAgain", "trackTrace", "flush",
          "getIssuesAgain", "setIssues", "setItems"}

\* The sets of places where the host throws during one reportLostItems call:
\* a throw in a read of the queued items or in the final write is swallowed
\* and the call goes on, any other throw ends the try block, so that no
\* second one is reached.
Swallowed == {"getItems", "getItemsAgain", "setItems"}
Failures ==
    {S \cup T : S \in SUBSET Swallowed,
                T \in {{}} \cup {{x} : x \in Sites \ Swallowed}}

\* isEnabled()
Mut_isEnabledFlagOnly == ledgerEnabled
isEnabled ==
    /\ ledgerEnabled
    /\ appInsights # "null"
    /\ sessionStorage.defined
    /\ "getItem" \in sessionStorage.fns
    /\ "setItem" \in sessionStorage.fns

\* A call of the Ledger.
LedgerCall(op, count, message, thrown) ==
    Call(op, CRITICAL, message, Num(count), Undefined, thrown)

\* What the calls of the Ledger that leave the logger alone leave unchanged.
Mut_LoggerCountReset ==
    /\ written' = <<>>
    /\ _messageCount' = 0
    /\ UNCHANGED <<heap, queue, MAX_INTERNAL_MESSAGE_LIMIT, enableDebugExceptions,
                   verboseLogging, console>>
LoggerUnchanged == written' = <<>> /\ UNCHANGED logVars

\* reset(); `F` is the set of places where the host throws.
reset(F) ==
    LET fails == isEnabled /\ "setItems" \in F
    IN  /\ storage' = IF isEnabled /\ ~fails
                      THEN [storage EXCEPT ![ITEMS_QUEUED_KEY] = <<"0">>]
                      ELSE storage
        /\ threw' = IF fails THEN {"setItems"} ELSE {}
        /\ last' = LedgerCall("reset", 0, NullMessage,
                              IF fails THEN "Error" ELSE "nothing")
        /\ reported' = <<>>
        /\ returned' = 0
        /\ LoggerUnchanged
        /\ UNCHANGED <<sessionStorage, ledgerEnabled, appInsights>>

\* The value of getIssuesReported() when its read does not throw.
IssuesReported ==
    IF ~isEnabled \/ ~IsNumeric(storage[ISSUES_REPORTED_KEY])
    THEN 0
    ELSE ToNumber(storage[ISSUES_REPORTED_KEY])

\* getIssuesReported()
getIssuesReported(F) ==
    LET fails == isEnabled /\ "getIssues" \in F
    IN  /\ returned' = IF fails THEN 0 ELSE IssuesReported
        /\ threw' = IF fails THEN {"getIssues"} ELSE {}
        /\ last' = LedgerCall("getIssuesReported", 0, NullMessage,
                              IF fails THEN "Error" ELSE "nothing")
        /\ reported' = <<>>
        /\ LoggerUnchanged
        /\ UNCHANGED <<storage, sessionStorage, ledgerEnabled, appInsights>>

\* The value of getNumberOfLostItems(); `fails` when its read throws.
NumberOfLostItems(fails) ==
    IF isEnabled /\ ~fails
    THEN ReadCounter(storage[ITEMS_QUEUED_KEY])
    ELSE 0

\* getNumberOfLostItems()
getNumberOfLostItems(F) ==
    LET fails == isEnabled /\ "getItems" \in F
    IN  /\ returned' = NumberOfLostItems(fails)
        /\ threw' = IF fails THEN {"getItems"} ELSE {}
        /\ last' = LedgerCall("getNumberOfLostItems", 0, NullMessage, "nothing")
        /\ reported' = <<>>
        /\ LoggerUnchanged
        /\ UNCHANGED <<storage, sessionStorage, ledgerEnabled, appInsights>>

\* What incrementItemsQueued and decrementItemsQueued read as itemsQueued.
ItemsQueuedRead(F) == NumberOfLostItems(isEnabled /\ "getItems" \in F)

\* The body shared by incrementItemsQueued and decrementItemsQueued:
\* `itemsQueued` is the count to store, `F` the places where the host throws.
Mut_StoresThenThrows(op, count, itemsQueued, F) ==
    LET readFails == isEnabled /\ "getItems" \in F
        writeFails == isEnabled /\ "setItems" \in F
    IN  /\ storage' = IF isEnabled
                      THEN [storage EXCEPT ![ITEMS_QUEUED_KEY] = toString(itemsQueued)]
                      ELSE storage
        /\ threw' = (IF readFails THEN {"getItems"} ELSE {}) \cup
                    (IF writeFails THEN {"setItems"} ELSE {})
        /\ last' = LedgerCall(op, count, NullMessage, "nothing")
        /\ reported' = <<>>
        /\ returned' = 0
        /\ LoggerUnchanged
        /\ UNCHANGED <<sessionStorage, ledgerEnabled, appInsights>>
StoreItemsQueued(op, count, itemsQueued, F) ==
    LET readFails == isEnabled /\ "getItems" \in F
        writeFails == isEnabled /\ "setItems" \in F
    IN  /\ storage' = IF isEnabled /\ ~writeFails
                      THEN [storage EXCEPT ![ITEMS_QUEUED_KEY] = toString(itemsQueued)]
                      ELSE storage
        /\ threw' = (IF readFails THEN {"getItems"} ELSE {}) \cup
                    (IF writeFails THEN {"setItems"} ELSE {})
        /\ last' = LedgerCall(op, count, NullMessage, "nothing")
        /\ reported' = <<>>
        /\ returned' = 0
        /\ LoggerUnchanged
        /\ UNCHANGED <<sessionStorage, ledgerEnabled, appInsights>>

\* The count a decrement stores.
Mut_Unclamped(itemsQueued, count) == itemsQueued - count
Clamped(itemsQueued, count) ==
    IF itemsQueued - count < 0 THEN 0 ELSE itemsQueued - count

\* incrementItemsQueued()
incrementItemsQueued(F) ==
    StoreItemsQueued("incrementItemsQueued", 1, ItemsQueuedRead(F) + 1, F)

\* decrementItemsQueued(countOfItemsSentSuccessfully)
decrementItemsQueued(countOfItemsSentSuccessfully, F) ==
    StoreItemsQueued("decrementItemsQueued", countOfItemsSentSuccessfully,
                     Clamped(ItemsQueuedRead(F), countOfItemsSentSuccessfully), F)

\* The text of the trace that reports a loss of n items.
Mut_LossReportNoCount(n) == <<"AI (Internal): Internal report DATALOSS: ">>
LossReport(n) == <<"AI (Internal): Internal report DATALOSS: ">> \o toString(n)

\* The message reportLostItems records when a step throws; the name of the
\* exception is a piece of its own.
FailureMessage ==
    _InternalLogMessage(<<"Failed to report data loss: ", "Util.getExceptionName(e)">>,
                        PropsObject)

\* getIssuesReported() < LIMIT_PER_SESSION
Mut_UnderLimitInclusive(issues) == issues <= LIMIT_PER_SESSION
UnderLimit(issues) == issues < LIMIT_PER_SESSION

\* The report is counted after trackTrace and flush, inside the try block:
\* `failed` when one of the two threw.
Mut_CountsFailedReport(guard, failed) == guard
CountsReport(guard, failed) == guard /\ ~failed

\* The finally block runs reset() whether or not a step was caught.
Mut_ResetsUnlessCaught(caught) == ~caught
FinallyResets(caught) == TRUE

\* The severity of the record of a failure.
Mut_FailureWarning == WARNING
FailureSeverity == CRITICAL

\* reportLostItems() up to its catch block: the calls it makes of the
\* reporter, the storage it leaves, the places that threw and whether a
\* throw was caught; `F` is the set of places where the host throws.
ReportOutcome(F) ==
    LET en == isEnabled
        t1 == en /\ "getIssues" \in F
        issues == IssuesReported
        underLimit == en /\ ~t1 /\ UnderLimit(issues)
        t2 == underLimit /\ "getItems" \in F
        guard == underLimit /\ NumberOfLostItems(t2) > 0
        t3 == guard /\ "getItemsAgain" \in F
        t4 == guard /\ "trackTrace" \in F
        t5 == guard /\ ~t4 /\ "flush" \in F
        counted == CountsReport(guard, t4 \/ t5)
        t6 == counted /\ "getIssuesAgain" \in F
        t7 == counted /\ ~t6 /\ "setIssues" \in F
        incremented == counted /\ ~t6 /\ ~t7
        caught == t1 \/ t4 \/ t5 \/ t6 \/ t7
        resets == en /\ FinallyResets(caught)
        t8 == resets /\ "setItems" \in F
    IN  [reported |->
            (IF guard
             THEN <<[fn |-> "trackTrace", text |-> LossReport(NumberOfLostItems(t3))]>>
             ELSE <<>>) \o
            (IF guard /\ ~t4 THEN <<[fn |-> "flush", text |-> <<>>]>> ELSE <<>>),
         storage |->
            [storage EXCEPT
                ![ISSUES_REPORTED_KEY] = IF incremented THEN toString(issues + 1) ELSE @,
                ![ITEMS_QUEUED_KEY] = IF resets /\ ~t8 THEN <<"0">> ELSE @],
         threw |-> {x \in Sites :
                      \/ x = "getIssues" /\ t1
                      \/ x = "getItems" /\ t2
                      \/ x = "getItemsAgain" /\ t3
                      \/ x = "trackTrace" /\ t4
                      \/ x = "flush" /\ t5
                      \/ x = "getIssuesAgain" /\ t6
                      \/ x = "setIssues" /\ t7
                      \/ x = "setItems" /\ t8},
         caught |-> caught]

\* reportLostItems(); `F` is the set of places where the host throws.
reportLostItems(F) ==
    LET outcome == ReportOutcome(F)
    IN  /\ reported' = outcome.reported
        /\ storage' = outcome.storage
        /\ threw' = outcome.threw
        /\ IF outcome.caught
           THEN /\ ThrowInternalEffect([heap EXCEPT ![LedgerObj] = FailureMessage],
                                       AiNonUserActionablePrefix, FailureSeverity,
                                       LedgerObj)
                /\ last' = LedgerCall("reportLostItems", 0, LedgerObj,
                                      IF ThrowsMessage THEN "message" ELSE "nothing")
           ELSE /\ written' = <<>>
                /\ UNCHANGED <<heap, queue, _messageCount>>
                /\ last' = LedgerCall("reportLostItems", 0, NullMessage, "nothing")
        /\ returned' = 0
        /\ UNCHANGED <<MAX_INTERNAL_MESSAGE_LIMIT, enableDebugExceptions,
                       verboseLogging, console, sessionStorage, ledgerEnabled,
                       appInsights>>

\* The Ledger in the state `items` and `issues` of the session's storage,
\* with the host's storage object `ss`, flag `en` and reporter `ai`.
LedgerIn(items, issues, ss, en, ai) ==
    /\ storage = [k \in Keys |-> IF k = ITEMS_QUEUED_KEY THEN items ELSE issues]
    /\ sessionStorage = ss
    /\ ledgerEnabled = en
    /\ appInsights = ai
    /\ reported = <<>>
    /\ returned = 0
    /\ threw = {}

\* The Ledger after the module is loaded: not enabled, no reporter.
LedgerLoaded == LedgerIn(NoValue, NoValue, BrowserStorage, FALSE, "null")

\* ---------------------------------------- Initialization.pollInteralLogs

\* What the callback passes to trackTrace for the queue entry `o`: the text
\* of the message, and its properties when they are an object.
TraceOf(o) ==
    [message |-> o,
     text |-> heap[o].message,
     properties |-> IF heap[o].properties = PropsObject
                    THEN PropsObject ELSE "absent"]

\* The test of the for loop: `length` was read before the loop.
Mut_LoopReadsQueue == index < Len(queue)
LoopGoesOn == index < length

\* What `queue.length = 0` leaves of the queue.
Truncated == <<>>

\* A step of the callback.
PollCall == Call("pollInteralLogs", CRITICAL, NullMessage, NoLimit, Undefined, "nothing")

\* The timer fires: the callback reads the queue and its length.
pollStart ==
    /\ pc = "idle"
    /\ pc' = "loop"
    /\ length' = Len(queue)
    /\ index' = 0
    /\ emitted' = <<>>
    /\ written' = <<>>
    /\ last' = PollCall
    /\ UNCHANGED logVars

\* One pass of the loop: trackTrace for queue[i], then i++.
pollEmit ==
    /\ pc = "loop"
    /\ LoopGoesOn
    /\ emitted' = Append(emitted, TraceOf(queue[index + 1]))
    /\ index' = index + 1
    /\ written' = <<>>
    /\ last' = PollCall
    /\ UNCHANGED <<pc, length>>
    /\ UNCHANGED logVars

\* The loop is over: queue.length = 0, and the callback returns; its
\* variables are gone.
Mut_pollEndResetsCount ==
    /\ pc = "loop"
    /\ ~LoopGoesOn
    /\ queue' = Truncated
    /\ _messageCount' = 0
    /\ pc' = "idle"
    /\ length' = 0
    /\ index' = 0
    /\ written' = <<>>
    /\ last' = PollCall
    /\ UNCHANGED emitted
    /\ UNCHANGED <<heap, MAX_INTERNAL_MESSAGE_LIMIT, enableDebugExceptions,
                   verboseLogging, console>>
pollEnd ==
    /\ pc = "loop"
    /\ ~LoopGoesOn
    /\ queue' = Truncated
    /\ pc' = "idle"
    /\ length' = 0
    /\ index' = 0
    /\ written' = <<>>
    /\ last' = PollCall
    /\ UNCHANGED emitted
    /\ UNCHANGED <<heap, _messageCount, MAX_INTERNAL_MESSAGE_LIMIT,
                   enableDebugExceptions, verboseLogging, console>>

\* pollInteralLogs: the steps of its callback.
pollInteralLogs == pollStart \/ pollEmit \/ pollEnd

\* A call made by the host runs between two runs of the callback; a call
\* made while the callback runs is made from inside a trackTrace call.
Reentrant == pc = "loop" /\ index > 0
CanCall == pc = "idle" \/ Reentrant

\* ------------------------------------------------------ specifications

\* What keeps the state space finite: room in the queue for a message and a
\* throttle message unless the count has reached the limit, a count within
\* the limits the callers set, and a text that one more prefix keeps within
\* MaxTextLen pieces.
HasRoom ==
    /\ \/ Len(queue) + 2 <= MaxQueueLen
       \/ _messageCount >= MAX_INTERNAL_MESSAGE_LIMIT
    /\ _messageCount <= MaxLimit
CanPrefix(m) == m \in Objs => Len(heap[m].message) < MaxTextLen

Throws(S, M) ==
    \/ \E s \in S, m \in M :
          HasRoom /\ CanPrefix(m) /\ throwInternalNonUserActionable(s, m)
    \/ \E s \in S, m \in M :
          HasRoom /\ CanPrefix(m) /\ throwInternalUserActionable(s, m)

Records(S, M) ==
    \/ Throws(S, M)
    \/ \E s \in S, m \in M \ {NullMessage} : HasRoom /\ logInternalMessage(s, m)

\* The calls that record a message, and those of them that reach
\* logInternalMessage: outside debug mode, with a message whose text is defined.
ThrowOps == {"throwInternalNonUserActionable", "throwInternalUserActionable"}
RecordOps == ThrowOps \cup {"logInternalMessage"}
Logs(c) ==
    \/ c.op = "logInternalMessage"
    \/ /\ c.op \in ThrowOps
       /\ ~enableDebugExceptions
       /\ c.message # NullMessage
       /\ heap[c.message].message # Undefined

\* What a step shows of the history of the page view.
SentinelQueued ==
    Len(queue') > Len(queue) /\ queue'[Len(queue')] = ThrottleObj
IsReset == last'.op = "resetInternalMessageCount"

ObserveSentinels ==
    /\ sentinels' = IF IsReset THEN 0
                    ELSE IF SentinelQueued THEN sentinels + 1 ELSE sentinels
    /\ reopened' = IF IsReset THEN FALSE
                   ELSE \/ reopened
                        \/ /\ sentinels > 0
                           /\ MAX_INTERNAL_MESSAGE_LIMIT' # MAX_INTERNAL_MESSAGE_LIMIT
                           /\ MAX_INTERNAL_MESSAGE_LIMIT' > _messageCount

ObserveEligible ==
    /\ eligible' = IF IsReset THEN 0
                   ELSE IF /\ Logs(last')
                           /\ verboseLogging \/ last'.severity = CRITICAL
                           /\ eligible <= MaxLimit
                        THEN eligible + 1 ELSE eligible
    /\ throttledBefore' = IF IsReset
                          THEN _messageCount >= MAX_INTERNAL_MESSAGE_LIMIT
                          ELSE throttledBefore

\* No throttle message built yet.
NoObject == [message |-> Undefined, properties |-> PropsObject]

\* The messages callers build with new _InternalLogMessage("error!").
CallersMessages ==
    [o \in Objs \cup {ThrottleObj, LedgerObj} |->
        IF o \notin Objs THEN NoObject
        ELSE _InternalLogMessage(<<"error!">>, "undefined")]

\* The logger after the module is loaded, with the host's `limit`, `verbose`
\* and console object `con`, and the callers' messages `h`.
LoggerLoaded(h, limit, verbose, con) ==
    /\ heap = h
    /\ queue = <<>>
    /\ _messageCount = 0
    /\ MAX_INTERNAL_MESSAGE_LIMIT = limit
    /\ enableDebugExceptions = FALSE
    /\ verboseLogging = verbose
    /\ console = con
    /\ written = <<>>
    /\ last = Call("load", CRITICAL, NullMessage, NoLimit, Undefined, "nothing")
    /\ sentinels = 0
    /\ reopened = FALSE
    /\ eligible = 0
    /\ throttledBefore = FALSE
    /\ calls = <<>>
    /\ pc = "idle"
    /\ length = 0
    /\ index = 0
    /\ emitted = <<>>
    /\ atStart = <<>>
    /\ appended = 0

\* The state after both modules are loaded.
Loaded(h, limit, verbose, con) ==
    LoggerLoaded(h, limit, verbose, con) /\ LedgerLoaded

Init == Loaded(CallersMessages, DefaultLimit, FALSE, BrowserConsole)

\* The throttle under any order of records, resets and changes of the limit
\* and of the verbosity.
Next ==
    /\ \/ Records(LoggingSeverity, Objs)
       \/ resetInternalMessageCount
       \/ \E l \in LimitArgs : setMaxInternalMessageLimit(l)
       \/ \E b \in BOOLEAN : SetVerboseLogging(b)
    /\ ObserveSentinels
    /\ UNCHANGED <<eligible, throttledBefore, calls>>
    /\ UNCHANGED <<ledgerVars, drainVars>>

Spec == Init /\ [][Next]_vars

\* The same with logInternalMessage called directly only.
NextThrottle ==
    /\ \/ \E s \in LoggingSeverity, m \in Objs : HasRoom /\ logInternalMessage(s, m)
       \/ resetInternalMessageCount
       \/ \E l \in LimitArgs : setMaxInternalMessageLimit(l)
       \/ \E b \in BOOLEAN : SetVerboseLogging(b)
    /\ ObserveSentinels
    /\ UNCHANGED <<eligible, throttledBefore, calls>>
    /\ UNCHANGED <<ledgerVars, drainVars>>

SpecThrottle == Init /\ [][NextThrottle]_vars

\* Report calls under a limit and a verbosity the host has set once.
InitRecord ==
    \E l \in 1..MaxLimit, v \in BOOLEAN : Loaded(CallersMessages, l, v, BrowserConsole)

NextRecord ==
    /\ Throws(LoggingSeverity, Objs)
    /\ ObserveSentinels
    /\ UNCHANGED <<eligible, throttledBefore, calls>>
    /\ UNCHANGED <<ledgerVars, drainVars>>

SpecRecord == InitRecord /\ [][NextRecord]_vars

\* One page view after the other, as in the tests: records, resets and the
\* clearing of the queue, under a limit and a verbosity set once.
NextReset ==
    /\ \/ Records(LoggingSeverity, {1})
       \/ resetInternalMessageCount
       \/ clearInternalLoggingQueue
    /\ ObserveSentinels
    /\ ObserveEligible
    /\ UNCHANGED calls
    /\ UNCHANGED <<ledgerVars, drainVars>>

SpecReset == InitRecord /\ [][NextReset]_vars

\* Any message a caller may build as the first one.
AnyFirstMessage ==
    {[CallersMessages EXCEPT ![1] = _InternalLogMessage(t, p)] :
        t \in MsgTexts, p \in {"undefined", PropsOther}}

\* Debug mode switched on and off between records of any message argument.
InitDebug ==
    \E h \in AnyFirstMessage : Loaded(h, DefaultLimit, FALSE, BrowserConsole)

NextDebug ==
    /\ \/ Throws(LoggingSeverity, Objs \cup {NullMessage})
       \/ \E b \in BOOLEAN : SetEnableDebugExceptions(b)
    /\ UNCHANGED <<historyVars, calls>>
    /\ UNCHANGED <<ledgerVars, drainVars>>

SpecDebug == InitDebug /\ [][NextDebug]_vars

\* Any console of the host.
InitHost ==
    \E h \in AnyFirstMessage, c \in Consoles : Loaded(h, DefaultLimit, FALSE, c)

NextHost ==
    /\ \/ Records(LoggingSeverity, {1})
       \/ \E t \in ConsoleTexts : WarnToConsole(t)
    /\ UNCHANGED <<historyVars, calls>>
    /\ UNCHANGED <<ledgerVars, drainVars>>

SpecHost == InitHost /\ [][NextHost]_vars

\* One page view of CRITICAL records under a limit set once: `calls` is the
\* history of the records.
InitWindow ==
    \E l \in 1..MaxLimit : Loaded(CallersMessages, l, FALSE, BrowserConsole)

NextWindow ==
    /\ Len(calls) < MaxCalls
    /\ Records({CRITICAL}, Objs)
    /\ calls' = Append(calls, [op |-> last'.op, severity |-> last'.severity,
                               message |-> last'.message])
    /\ UNCHANGED historyVars
    /\ UNCHANGED <<ledgerVars, drainVars>>

SpecWindow == InitWindow /\ [][NextWindow]_vars

\* One page view of report calls in verbose mode.
InitVerbose ==
    \E l \in (1..MaxLimit) \cup {DefaultLimit} :
        Loaded(CallersMessages, l, TRUE, BrowserConsole)

NextVerbose ==
    /\ Len(calls) < MaxCalls
    /\ Throws(LoggingSeverity, Objs)
    /\ calls' = Append(calls, [op |-> last'.op, severity |-> last'.severity,
                               message |-> last'.message])
    /\ UNCHANGED historyVars
    /\ UNCHANGED <<ledgerVars, drainVars>>

SpecVerbose == InitVerbose /\ [][NextVerbose]_vars

\* The counts passed to decrementItemsQueued.
Counts == (-1)..(MaxItems + 1)

\* The calls that keep the queued items within MaxItems; no call of the
\* host throws.
Increments ==
    ItemsQueuedRead({}) < MaxItems /\ incrementItemsQueued({})
Decrements ==
    \E c \in Counts :
        Clamped(ItemsQueuedRead({}), c) <= MaxItems /\ decrementItemsQueued(c, {})

\* The Ledger enabled in a session that starts without queued items.
InitCount ==
    /\ LoggerLoaded(CallersMessages, DefaultLimit, FALSE, BrowserConsole)
    /\ \E items \in {NoValue, <<"0">>} :
          LedgerIn(items, NoValue, BrowserStorage, TRUE, "AppInsights")

\* Increments and decrements, with `calls` the history of the calls.
NextCount ==
    /\ Len(calls) < MaxCalls
    /\ \/ Increments
       \/ Decrements
    /\ calls' = Append(calls, [op |-> last'.op, count |-> last'.limit.n])
    /\ UNCHANGED <<historyVars, drainVars>>

SpecCount == InitCount /\ [][NextCount]_vars

\* The Ledger under any host: any storage object, flag and reporter, the
\* two keys absent or holding counts the Ledger stored.
InitLedger ==
    /\ LoggerLoaded(CallersMessages, MaxLimit, FALSE, BrowserConsole)
    /\ \E items \in {NoValue} \cup {toString(n) : n \in 0..MaxItems},
          issues \in {NoValue, <<"0">>},
          ss \in Storages, en \in BOOLEAN, ai \in {"null", "AppInsights"} :
          LedgerIn(items, issues, ss, en, ai)

\* Any call of the Ledger, with any calls of the host throwing.
NextLedger ==
    /\ \/ \E F \in SUBSET {"setItems"} : reset(F)
       \/ \E F \in SUBSET {"getItems", "setItems"} :
             ItemsQueuedRead(F) < MaxItems /\ incrementItemsQueued(F)
       \/ \E c \in Counts, F \in SUBSET {"getItems", "setItems"} :
             Clamped(ItemsQueuedRead(F), c) <= MaxItems /\ decrementItemsQueued(c, F)
       \/ \E F \in SUBSET {"getIssues"} : getIssuesReported(F)
       \/ \E F \in SUBSET {"getItems"} : getNumberOfLostItems(F)
       \/ \E F \in Failures : reportLostItems(F)
    /\ UNCHANGED <<historyVars, calls, drainVars>>

SpecLedger == InitLedger /\ [][NextLedger]_vars

\* What a step shows of the runs of the callback and of the pushes: the queue
\* a run found, and the messages pushed and counted since the latest reset
\* (the throttle message is pushed without being counted).
PushedNow ==
    IF Len(queue') > Len(queue)
    THEN Cardinality({k \in (Len(queue) + 1)..Len(queue') : queue'[k] # ThrottleObj})
    ELSE 0

ObserveDrain ==
    /\ atStart' = IF pc = "idle"
                  THEN IF pc' = "loop" THEN queue ELSE <<>>
                  ELSE atStart
    /\ appended' = IF IsReset THEN 0 ELSE appended + PushedNow

\* Room in the queue for what the next push adds: the message, and the
\* throttle message when the push brings the count to the limit.
HasRoomFor ==
    /\ \/ Len(queue) + (IF LimitReached(_messageCount + 1) THEN 2 ELSE 1)
             <= MaxQueueLen
       \/ _areInternalMessagesThrottled
    /\ _messageCount <= MaxLimit

\* The calls of the host leave the callback where it stands; `emitted` is
\* what the latest call emitted, as `written` is what it wrote.
HostCalls ==
    /\ \/ /\ CanCall
          /\ \E s \in LoggingSeverity, m \in Objs :
                HasRoomFor /\ logInternalMessage(s, m)
       \/ pc = "idle" /\ resetInternalMessageCount
       \/ pc = "idle" /\ \E b \in BOOLEAN : SetVerboseLogging(b)
    /\ emitted' = IF pc = "idle" THEN <<>> ELSE emitted
    /\ UNCHANGED <<pc, length, index>>

\* Page views with the timer running: records between and inside the runs
\* of the callback, resets and changes of the verbosity between them, under
\* a limit set once.
InitDrain ==
    \E l \in (1..MaxLimit) \cup {DefaultLimit} :
        Loaded(CallersMessages, l, FALSE, BrowserConsole)

NextDrain ==
    /\ \/ HostCalls
       \/ pollInteralLogs
    /\ ObserveSentinels
    /\ ObserveDrain
    /\ UNCHANGED <<eligible, throttledBefore, calls>>
    /\ UNCHANGED ledgerVars

SpecDrain == InitDrain /\ [][NextDrain]_vars

\* The two rate limits side by side: the calls of the logger and the three
\* calls that keep the count of queued items, in any order, with the Ledger
\* enabled and no call of the host throwing.
InitBoth ==
    /\ LoggerLoaded(CallersMessages, MaxLimit, FALSE, BrowserConsole)
    /\ \E items \in {NoValue, <<"1">>} :
          LedgerIn(items, <<"1">>, BrowserStorage, TRUE, "AppInsights")

LoggerCalls ==
    /\ \/ Records(LoggingSeverity, {1})
       \/ resetInternalMessageCount
       \/ \E l \in {Num(0), Num(1), Num(MaxLimit)} : setMaxInternalMessageLimit(l)
       \/ \E b \in BOOLEAN : SetVerboseLogging(b)
       \/ \E t \in ConsoleTexts : WarnToConsole(t)
    /\ UNCHANGED ledgerVars

CounterCalls ==
    \/ reset({})
    \/ Increments
    \/ Decrements

NextBoth ==
    /\ \/ LoggerCalls
       \/ CounterCalls
    /\ UNCHANGED <<historyVars, calls, drainVars>>

SpecBoth == InitBoth /\ [][NextBoth]_vars

\* A message may be recorded again after it was prefixed, as in the tests:
\* its text then gets one more prefix, within MaxTextLen + 1 pieces.
CanPrefixAgain(m) == m \in Objs => Len(heap[m].message) <= MaxTextLen

\* CRITICAL report calls that may pass the same message objects again,
\* between the runs of the drain callback, under a limit set once.
ThrowsAgain ==
    /\ pc = "idle"
    /\ HasRoomFor
    /\ \E s \in {CRITICAL}, m \in Objs :
          /\ CanPrefixAgain(m)
          /\ \/ throwInternalNonUserActionable(s, m)
             \/ throwInternalUserActionable(s, m)
    /\ emitted' = <<>>
    /\ UNCHANGED <<pc, length, index>>

NextSame ==
    /\ \/ ThrowsAgain
       \/ pollInteralLogs
    /\ ObserveSentinels
    /\ ObserveDrain
    /\ UNCHANGED <<eligible, throttledBefore, calls>>
    /\ UNCHANGED ledgerVars

SpecSame == InitWindow /\ [][NextSame]_vars

\* -------------------------------------------------------------- claims

SentinelText ==
    <<"AI (Internal): ",
      "Internal events throttle limit per PageView reached for this app.">>

PrefixOf(op) ==
    IF op = "throwInternalUserActionable" THEN "AI: " ELSE "AI (Internal): "

\* C1: from an empty queue and a count of 0, outside debug mode and under a
\* fixed positive limit L, n >= L CRITICAL records without a reset leave
\* exactly L+1 entries in the queue: the first L recorded messages in call
\* order, then the throttle message; the records after the L-th add nothing.
C1_CriticalWindow ==
    LET L == MAX_INTERNAL_MESSAGE_LIMIT
    IN  ( /\ ~enableDebugExceptions
          /\ \A i \in 1..Len(calls) : calls[i].severity = CRITICAL
          /\ Len(calls) >= L )
        => /\ Len(queue) = L + 1
           /\ \A i \in 1..L : queue[i] = calls[i].message
           /\ queue[L + 1] \notin Objs
           /\ heap[queue[L + 1]].message = SentinelText

C1_Witness ==
    /\ MAX_INTERNAL_MESSAGE_LIMIT = 2
    /\ Len(calls) = 4
    /\ calls[1].message # calls[2].message
    /\ Len(queue) = 3
    /\ queue[3] = ThrottleObj

\* C2 (as corrected): with verbose mode and debug mode off and the count
\* below the limit, a WARNING record appends nothing; a CRITICAL record
\* appends the message passed in, alone when the count stays below the limit
\* and followed by the throttle message when it brings the count to the limit.
C2_RecordByDefault ==
    [][ ( /\ last'.op \in RecordOps
          /\ Logs(last')
          /\ ~verboseLogging
          /\ ~enableDebugExceptions
          /\ _messageCount < MAX_INTERNAL_MESSAGE_LIMIT )
        => IF last'.severity = WARNING
           THEN queue' = queue
           ELSE IF _messageCount + 1 = MAX_INTERNAL_MESSAGE_LIMIT
                THEN /\ queue' = queue \o <<last'.message, ThrottleObj>>
                     /\ heap'[ThrottleObj].message = SentinelText
                ELSE queue' = Append(queue, last'.message) ]_vars

C2_Witness ==
    /\ ~verboseLogging
    /\ MAX_INTERNAL_MESSAGE_LIMIT = 2
    /\ last.op \in RecordOps
    /\ last.severity = CRITICAL
    /\ queue = <<last.message>>

\* C2 as stated: under the same conditions a CRITICAL record appends exactly
\* one entry, the message passed in.
C2_Original ==
    [][ ( /\ last'.op \in RecordOps
          /\ Logs(last')
          /\ ~verboseLogging
          /\ ~enableDebugExceptions
          /\ _messageCount < MAX_INTERNAL_MESSAGE_LIMIT )
        => IF last'.severity = WARNING
           THEN queue' = queue
           ELSE queue' = Append(queue, last'.message) ]_vars

\* The prefixes of the first n calls that recorded message m, latest first.
RECURSIVE PrefixesOf(_, _)
PrefixesOf(m, n) ==
    IF n = 0 THEN <<>>
    ELSE IF calls[n].message = m
         THEN <<PrefixOf(calls[n].op)>> \o PrefixesOf(m, n - 1)
         ELSE PrefixesOf(m, n - 1)

C4_DebugThrows ==
    [][ (last'.op \in ThrowOps /\ enableDebugExceptions)
        => /\ last'.thrown = "message"
           /\ queue' = queue
           /\ _messageCount' = _messageCount
           /\ heap' = heap
           /\ written' = <<>>
           /\ UNCHANGED logVars ]_vars

C4_Witness ==
    /\ enableDebugExceptions
    /\ last.op \in ThrowOps
    /\ last.thrown = "message"
    /\ last.message \in Objs
    /\ heap[last.message].message = <<"error!">>
    /\ queue # <<>>

\* C5: outside debug mode a report call of any severity and of either class
\* puts the prefix of its class once in front of the text of the message,
\* whether the message is then queued, filtered out or dropped by the throttle.
C5_PrefixedOnce ==
    [][ (last'.op \in ThrowOps /\ Logs(last'))
        => LET m == last'.message
           IN  /\ heap'[m].message = <<PrefixOf(last'.op)>> \o heap[m].message
               /\ heap'[m].properties = heap[m].properties
               /\ \A o \in Objs \ {m} : heap'[o] = heap[o] ]_vars

C5_Witness ==
    /\ last.op = "throwInternalUserActionable"
    /\ _messageCount >= MAX_INTERNAL_MESSAGE_LIMIT
    /\ \A i \in 1..Len(queue) : queue[i] # last.message
    /\ heap[last.message].message = <<"AI: ", "error!">>

\* C6: after a reset that found the throttle reached, the first L records
\* that are CRITICAL or made in verbose mode are all queued, and the throttle
\* message is queued after the L-th of them.
C6_ResetRestores ==
    [][ ( /\ throttledBefore
          /\ last'.op \in RecordOps
          /\ Logs(last')
          /\ verboseLogging \/ last'.severity = CRITICAL
          /\ eligible < MAX_INTERNAL_MESSAGE_LIMIT )
        => IF eligible + 1 = MAX_INTERNAL_MESSAGE_LIMIT
           THEN /\ queue' = queue \o <<last'.message, ThrottleObj>>
                /\ heap'[ThrottleObj].message = SentinelText
           ELSE queue' = Append(queue, last'.message) ]_vars

C6_Witness ==
    /\ throttledBefore
    /\ MAX_INTERNAL_MESSAGE_LIMIT = 2
    /\ eligible = 2
    /\ last.op \in RecordOps
    /\ queue = <<last.message, last.message, ThrottleObj>>

\* C7 (as corrected): between two resets, as long as no call has set the
\* limit above the count after a throttle message was queued, at most one
\* throttle message is queued and every record after it is dropped.
C7_OneSentinel ==
    [][ ~reopened
        => /\ sentinels' <= 1
           /\ (sentinels >= 1 /\ last'.op \in RecordOps) => queue' = queue ]_vars

C7_Witness ==
    /\ sentinels = 1
    /\ ~reopened
    /\ last.op = "logInternalMessage"
    /\ last.severity = CRITICAL
    /\ Len(queue) = 2
    /\ queue[2] = ThrottleObj
    /\ queue[1] # last.message

\* C7 as stated: between two resets at most one throttle message is queued and
\* every record after it is dropped, whatever limits are set in between.
C7_Original ==
    [][ /\ sentinels' <= 1
        /\ (sentinels >= 1 /\ last'.op \in RecordOps) => queue' = queue ]_vars

\* C8 as stated, for positive limits: whenever a record is dropped because
\* the count has reached the limit, a throttle message has been queued since
\* the latest reset.
C8_DroppedAfterSentinel ==
    [][ ( /\ last'.op \in RecordOps
          /\ Logs(last')
          /\ MAX_INTERNAL_MESSAGE_LIMIT > 0
          /\ _messageCount >= MAX_INTERNAL_MESSAGE_LIMIT )
        => sentinels >= 1 ]_vars

\* C9: setMaxInternalMessageLimit with a falsy limit (zero, null, undefined)
\* fails with an error and leaves the limit, the count and the queue as they
\* were; with a truthy limit it replaces the limit and changes nothing else.
C9_SetLimit ==
    [][ last'.op = "setMaxInternalMessageLimit"
        => LET limit == last'.limit
           IN  IF limit.kind \in {"undefined", "null"} \/ limit.n = 0
               THEN /\ last'.thrown = "Error"
                    /\ UNCHANGED logVars
               ELSE /\ last'.thrown = "nothing"
                    /\ MAX_INTERNAL_MESSAGE_LIMIT' = limit.n
                    /\ UNCHANGED <<heap, queue, _messageCount, enableDebugExceptions,
                                   verboseLogging, console>> ]_vars

C9_Witness ==
    /\ last.op = "setMaxInternalMessageLimit"
    /\ last.limit = Num(0)
    /\ last.thrown = "Error"
    /\ MAX_INTERNAL_MESSAGE_LIMIT = 1
    /\ queue # <<>>

\* C10: warnToConsole writes its text to the console, on warn if the console
\* has it and else on log, and leaves the queue, the count and the limit as
\* they were.
C10_WarnToConsoleOnly ==
    [][ last'.op = "warnToConsole"
        => /\ queue' = queue
           /\ _messageCount' = _messageCount
           /\ MAX_INTERNAL_MESSAGE_LIMIT' = MAX_INTERNAL_MESSAGE_LIMIT
           /\ heap' = heap
           /\ written' =
                IF ~console.defined \/ console.fns = {} THEN <<>>
                ELSE <<[fn |-> IF "warn" \in console.fns THEN "warn" ELSE "log",
                        text |-> last'.text]>> ]_vars

C10_Witness ==
    /\ last.op = "warnToConsole"
    /\ written = <<[fn |-> "warn", text |-> <<"warning!">>]>>
    /\ queue # <<>>

\* C11: outside debug mode a report call of a message with a defined text
\* writes one console line for that message, on warn if the console has it,
\* else on log, and none if it has neither; the call throws nothing and the
\* throttled enqueue still runs: the message is queued and counted when the
\* count is below the limit and the record is CRITICAL or the mode verbose.
C11_ConsoleFallback ==
    [][ (last'.op \in ThrowOps /\ Logs(last'))
        => LET m == last'.message
               text == heap'[m].message
               forMessage == {i \in 1..Len(written') :
                                 /\ Len(written'[i].text) >= Len(text)
                                 /\ SubSeq(written'[i].text, 1, Len(text)) = text}
           IN  /\ last'.thrown = "nothing"
               /\ IF ~console.defined \/ console.fns = {}
                  THEN written' = <<>>
                  ELSE /\ forMessage = {1}
                       /\ written'[1].fn =
                             IF "warn" \in console.fns THEN "warn" ELSE "log"
               /\ ( /\ _messageCount < MAX_INTERNAL_MESSAGE_LIMIT
                    /\ verboseLogging \/ last'.severity = CRITICAL )
                  => /\ Len(queue') > Len(queue)
                     /\ queue'[Len(queue) + 1] = m
                     /\ _messageCount' = _messageCount + 1 ]_vars

C11_Witness ==
    /\ console = [defined |-> TRUE, fns |-> {"log"}]
    /\ last.op = "throwInternalUserActionable"
    /\ last.thrown = "nothing"
    /\ Len(written) = 1
    /\ written[1].fn = "log"
    /\ queue = <<last.message>>

\* C12: with the Ledger enabled and no items queued at the start, K calls
\* of incrementItemsQueued followed by decrementItemsQueued(M) leave
\* getNumberOfLostItems() at K - M when M <= K and at 0 when M > K.
C12_IncrementsThenDecrement ==
    LET n == Len(calls)
    IN  ( /\ n >= 1
          /\ calls[n].op = "decrementItemsQueued"
          /\ \A i \in 1..(n - 1) : calls[i].op = "incrementItemsQueued" )
        => LET K == n - 1
               M == calls[n].count
           IN  /\ NumberOfLostItems(FALSE) = IF M <= K THEN K - M ELSE 0
               /\ storage[ITEMS_QUEUED_KEY] # NoValue

C12_Witness ==
    /\ Len(calls) = 3
    /\ calls[1].op = "incrementItemsQueued"
    /\ calls[2].op = "incrementItemsQueued"
    /\ calls[3].op = "decrementItemsQueued"
    /\ calls[3].count = 1
    /\ storage[ITEMS_QUEUED_KEY] = <<"1">>

\* C13: in every state reached by calls of the Ledger from keys that are
\* absent or hold non-negative counts, the persisted itemsQueued is a
\* non-negative integer.
C13_ItemsQueuedNonNegative ==
    /\ storage[ITEMS_QUEUED_KEY] = NoValue \/ IsDigits(storage[ITEMS_QUEUED_KEY])
    /\ ReadCounter(storage[ITEMS_QUEUED_KEY]) >= 0

C13_Witness ==
    /\ last.op = "decrementItemsQueued"
    /\ last.limit.n = MaxItems + 1
    /\ threw = {}
    /\ storage[ITEMS_QUEUED_KEY] = <<"0">>
    /\ storage[ISSUES_REPORTED_KEY] = <<"1">>

\* The Ledger is enabled: the flag is set, a reporter is registered and the
\* session storage and its two functions are present.
LedgerOn ==
    /\ ledgerEnabled
    /\ appInsights = "AppInsights"
    /\ sessionStorage = [defined |-> TRUE, fns |-> {"getItem", "setItem"}]

\* The persisted counters as numbers, 0 when absent.
ItemsPersisted == ReadCounter(storage[ITEMS_QUEUED_KEY])
IssuesPersisted == ReadCounter(storage[ISSUES_REPORTED_KEY])

\* C14: over any sequence of calls of the Ledger the persisted issuesReported
\* never decreases and never exceeds the limit of 10.
C14_IssuesReportedCapped ==
    [][ /\ ReadCounter(storage'[ISSUES_REPORTED_KEY]) >= IssuesPersisted
        /\ ReadCounter(storage'[ISSUES_REPORTED_KEY]) <= 10 ]_vars

C14_Witness ==
    /\ LedgerOn
    /\ storage[ISSUES_REPORTED_KEY] = <<"1", "0">>
    /\ last.op = "reportLostItems"
    /\ threw = {}
    /\ reported = <<>>

\* C15: reportLostItems calls the reporter and changes issuesReported only
\* when the Ledger is enabled, issuesReported is below the limit and the
\* count of lost items is above 0 at the call.
C15_ReportGuards ==
    [][ ( /\ last'.op = "reportLostItems"
          /\ \/ reported' # <<>>
             \/ storage'[ISSUES_REPORTED_KEY] # storage[ISSUES_REPORTED_KEY] )
        => /\ LedgerOn
           /\ IssuesPersisted < 10
           /\ ItemsPersisted > 0 ]_vars

C15_Witness ==
    /\ last.op = "reportLostItems"
    /\ Len(reported) = 2
    /\ storage[ISSUES_REPORTED_KEY] = <<"2">>
    /\ storage[ITEMS_QUEUED_KEY] = <<"0">>

\* C16: with the Ledger enabled, n > 0 lost items, issuesReported below the
\* limit and no call throwing, reportLostItems calls trackTrace once with a
\* text stating n, then flush once, adds 1 to issuesReported and leaves the
\* count of lost items at 0.
C16_ReportOnce ==
    [][ ( /\ last'.op = "reportLostItems"
          /\ LedgerOn
          /\ ItemsPersisted > 0
          /\ IssuesPersisted < 10
          /\ threw' = {} )
        => /\ reported' =
                <<[fn |-> "trackTrace",
                   text |-> <<"AI (Internal): Internal report DATALOSS: ">>
                            \o storage[ITEMS_QUEUED_KEY]],
                  [fn |-> "flush", text |-> <<>>]>>
           /\ ReadCounter(storage'[ISSUES_REPORTED_KEY]) = IssuesPersisted + 1
           /\ ReadCounter(storage'[ITEMS_QUEUED_KEY]) = 0 ]_vars

C16_Witness ==
    /\ last.op = "reportLostItems"
    /\ threw = {}
    /\ Len(reported) = 2
    /\ reported[1].text = <<"AI (Internal): Internal report DATALOSS: ", "2">>
    /\ reported[2].fn = "flush"
    /\ storage[ISSUES_REPORTED_KEY] = <<"1">>
    /\ storage[ITEMS_QUEUED_KEY] = <<"0">>

\* C17: with the Ledger disabled (flag off, no reporter, or the session
\* storage or one of its two functions absent) every call of the Ledger
\* throws nothing, returns 0 where it returns a value, never calls the
\* reporter and leaves both persisted counters as they were.
C17_DisabledNoOp ==
    [][ ~LedgerOn
        => /\ last'.thrown = "nothing"
           /\ returned' = 0
           /\ reported' = <<>>
           /\ storage' = storage
           /\ UNCHANGED logVars ]_vars

C17_Witness ==
    /\ ledgerEnabled
    /\ appInsights = "AppInsights"
    /\ sessionStorage = [defined |-> TRUE, fns |-> {"getItem"}]
    /\ last.op = "getNumberOfLostItems"
    /\ returned = 0
    /\ storage[ITEMS_QUEUED_KEY] = <<"2">>

\* C18 (as corrected): every reportLostItems call made with the Ledger
\* enabled ends with the persisted itemsQueued at 0, whether or not a report
\* was sent and whatever threw before, provided the write of the final reset
\* does not throw; with the Ledger disabled the call leaves it as it was.
C18_FinallyResets ==
    [][ last'.op = "reportLostItems"
        => /\ (LedgerOn /\ "setItems" \notin threw')
              => storage'[ITEMS_QUEUED_KEY] = <<"0">>
           /\ ~LedgerOn
              => storage'[ITEMS_QUEUED_KEY] = storage[ITEMS_QUEUED_KEY] ]_vars

C18_Witness ==
    /\ LedgerOn
    /\ last.op = "reportLostItems"
    /\ threw = {"trackTrace"}
    /\ Len(reported) = 1
    /\ storage[ITEMS_QUEUED_KEY] = <<"0">>

\* C18 as stated: every reportLostItems call ends with the persisted
\* itemsQueued at 0, with the Ledger disabled too.
C18_Original ==
    [][ (last'.op = "reportLostItems" /\ "setItems" \notin threw')
        => storage'[ITEMS_QUEUED_KEY] = <<"0">> ]_vars

\* The reporter threw in trackTrace or in flush.
ReporterThrew(t) == "trackTrace" \in t \/ "flush" \in t

\* C19 (as corrected): when trackTrace or flush throws inside
\* reportLostItems, issuesReported is left as it was, and the persisted
\* itemsQueued is still set to 0 unless the write of the reset throws.
C19_FailedReportNotCounted ==
    [][ (last'.op = "reportLostItems" /\ ReporterThrew(threw'))
        => /\ storage'[ISSUES_REPORTED_KEY] = storage[ISSUES_REPORTED_KEY]
           /\ "setItems" \notin threw' => storage'[ITEMS_QUEUED_KEY] = <<"0">> ]_vars

C19_Witness ==
    /\ LedgerOn
    /\ last.op = "reportLostItems"
    /\ threw = {"flush"}
    /\ Len(reported) = 2
    /\ storage[ISSUES_REPORTED_KEY] = <<"1">>
    /\ storage[ITEMS_QUEUED_KEY] = <<"0">>

\* C19 as stated: when trackTrace or flush throws inside reportLostItems,
\* issuesReported is incremented by 1 and itemsQueued becomes 0.
C19_Original ==
    [][ (last'.op = "reportLostItems" /\ ReporterThrew(threw'))
        => /\ ReadCounter(storage'[ISSUES_REPORTED_KEY]) = IssuesPersisted + 1
           /\ "setItems" \notin threw' => storage'[ITEMS_QUEUED_KEY] = <<"0">> ]_vars

\* The step recorded one non-user-actionable CRITICAL message: the message
\* carries the prefix, one console line is written for it, and it is queued
\* and counted unless the count has reached the limit.
OneFailureRecord ==
    /\ last'.message \notin Objs \cup {NullMessage, ThrottleObj}
    /\ heap'[last'.message].message[1] = "AI (Internal): "
    /\ Len(heap'[last'.message].message) = 3
    /\ Len(written') >= 1
    /\ written'[1].text[1] = "AI (Internal): "
    /\ \A i \in 2..Len(written') : written'[i].text = SentinelText
    /\ IF _messageCount >= MAX_INTERNAL_MESSAGE_LIMIT
       THEN queue' = queue /\ _messageCount' = _messageCount
       ELSE /\ _messageCount' = _messageCount + 1
            /\ queue' = IF _messageCount + 1 = MAX_INTERNAL_MESSAGE_LIMIT
                        THEN queue \o <<last'.message, ThrottleObj>>
                        ELSE Append(queue, last'.message)

NoFailureRecord ==
    /\ written' = <<>>
    /\ UNCHANGED <<heap, queue, _messageCount>>

\* C20 (as corrected): outside debug mode reportLostItems throws nothing to
\* its caller; when the reporter, a read or the write of issuesReported
\* throws, it records exactly one non-user-actionable CRITICAL message,
\* queued subject to the throttle; when only reads of itemsQueued or the
\* write of the final reset throw, the throw is swallowed without a record.
C20_FailureRecorded ==
    [][ (last'.op = "reportLostItems" /\ ~enableDebugExceptions)
        => /\ last'.thrown = "nothing"
           /\ IF threw' \ {"getItems", "getItemsAgain", "setItems"} # {}
              THEN OneFailureRecord
              ELSE NoFailureRecord ]_vars

C20_Witness ==
    /\ ~enableDebugExceptions
    /\ last.op = "reportLostItems"
    /\ last.thrown = "nothing"
    /\ threw = {"setIssues"}
    /\ Len(reported) = 2
    /\ queue = <<LedgerObj, LedgerObj, ThrottleObj>>

\* C20 as stated: outside debug mode a throw of the reporter or of a storage
\* call in the guard, report or increment steps is not thrown to the caller
\* and gives exactly one non-user-actionable CRITICAL record.
C20_Original ==
    [][ ( /\ last'.op = "reportLostItems"
          /\ ~enableDebugExceptions
          /\ threw' \ {"setItems"} # {} )
        => /\ last'.thrown = "nothing"
           /\ OneFailureRecord ]_vars

\* The calls of the session storage among the places where the host throws.
StorageSites == Sites \ {"trackTrace", "flush"}

\* The operations of the Ledger.
LedgerOps == {"reset", "getIssuesReported", "incrementItemsQueued",
              "decrementItemsQueued", "getNumberOfLostItems", "reportLostItems"}

\* C21 as stated: outside debug mode, when a getItem or setItem call of the
\* session storage throws inside an operation of the Ledger called directly,
\* the operation returns normally: nothing is thrown to the caller.
C21_StorageErrorsSwallowed ==
    [][ ( /\ last'.op \in LedgerOps
          /\ ~enableDebugExceptions
          /\ threw' \cap StorageSites # {} )
        => last'.thrown = "nothing" ]_vars

\* The messages of a sequence of trackTrace calls.
EmittedMessages(e) == [k \in 1..Len(e) |-> e[k].message]

\* C22: one run of the drain callback emits the messages that were in the
\* queue when it started, each once and oldest first, and no other, even when
\* emissions record new messages; it then leaves the queue empty, and on an
\* empty queue it emits nothing.
C22_DrainCycle ==
    /\ pc = "loop"
       => /\ Len(emitted) = index
          /\ index <= Len(atStart)
          /\ EmittedMessages(emitted) = SubSeq(atStart, 1, index)
    /\ (pc = "idle" /\ last = PollCall)
       => /\ EmittedMessages(emitted) = atStart
          /\ \A k \in 1..Len(emitted) : emitted[k].text = heap[atStart[k]].message
          /\ queue = <<>>

C22_Witness ==
    /\ pc = "loop"
    /\ length = 2
    /\ index = 2
    /\ Len(queue) = 4
    /\ queue[1] # queue[2]
    /\ EmittedMessages(emitted) = <<queue[1], queue[2]>>

\* C23 as stated: the messages pushed by records made from inside the
\* emissions of a run of the drain callback are still in the queue when the
\* run ends, for the next run to emit.
C23_AppendedKept ==
    [][ (pc = "loop" /\ pc' = "idle")
        => queue' = SubSeq(queue, length + 1, Len(queue)) ]_vars

\* The calls that keep the count of queued items.
CounterOps == {"reset", "incrementItemsQueued", "decrementItemsQueued"}

\* C24: resetInternalMessageCount and every other call of the logger leave
\* the persisted itemsQueued and issuesReported as they were, and reset,
\* incrementItemsQueued and decrementItemsQueued leave the count of messages,
\* the limit and the queue as they were.
C24_Independent ==
    [][ /\ last'.op \notin LedgerOps => storage' = storage
        /\ last'.op \in CounterOps
           => /\ _messageCount' = _messageCount
              /\ MAX_INTERNAL_MESSAGE_LIMIT' = MAX_INTERNAL_MESSAGE_LIMIT
              /\ queue' = queue ]_vars

C24_Witness ==
    /\ last.op = "reset"
    /\ threw = {}
    /\ storage[ITEMS_QUEUED_KEY] = <<"0">>
    /\ storage[ISSUES_REPORTED_KEY] = <<"1">>
    /\ MAX_INTERNAL_MESSAGE_LIMIT = 1
    /\ _messageCount = 1
    /\ queue = <<1, ThrottleObj>>

\* C25: in every reachable state the count of messages equals the number of
\* messages other than the throttle message pushed on the queue since the
\* latest reset, or since the start: a record that the verbosity filters out
\* or the throttle drops is not counted, nor is the throttle message.
C25_CountIsAppended == _messageCount = appended

C25_Witness ==
    /\ ~verboseLogging
    /\ last.op = "logInternalMessage"
    /\ last.severity = WARNING
    /\ MAX_INTERNAL_MESSAGE_LIMIT = 2
    /\ _messageCount = 2
    /\ appended = 2
    /\ sentinels = 1
    /\ Len(queue) = 3
    /\ queue[3] = ThrottleObj
    /\ queue[1] # queue[2]

\* C26: when the write of incrementItemsQueued or decrementItemsQueued
\* throws, both persisted counters keep their values and nothing is thrown
\* to the caller; a call whose reads and write succeed computes from the
\* persisted value: one more, or the value less the count sent, not below 0.
C26_FailedWriteKeepsCount ==
    [][ /\ ( /\ last'.op \in {"incrementItemsQueued", "decrementItemsQueued"}
             /\ "setItems" \in threw' )
           => /\ storage' = storage
              /\ last'.thrown = "nothing"
        /\ (last'.op = "incrementItemsQueued" /\ LedgerOn /\ threw' = {})
           => /\ storage'[ITEMS_QUEUED_KEY] = toString(ItemsPersisted + 1)
              /\ storage'[ISSUES_REPORTED_KEY] = storage[ISSUES_REPORTED_KEY]
        /\ (last'.op = "decrementItemsQueued" /\ LedgerOn /\ threw' = {})
           => /\ storage'[ITEMS_QUEUED_KEY] =
                    toString(IF ItemsPersisted > last'.limit.n
                             THEN ItemsPersisted - last'.limit.n ELSE 0)
              /\ storage'[ISSUES_REPORTED_KEY] = storage[ISSUES_REPORTED_KEY] ]_vars

C26_Witness ==
    /\ LedgerOn
    /\ last.op = "decrementItemsQueued"
    /\ last.limit.n = 1
    /\ last.thrown = "nothing"
    /\ threw = {"setItems"}
    /\ storage[ITEMS_QUEUED_KEY] = <<"2">>
    /\ storage[ISSUES_REPORTED_KEY] = <<"1">>

\* C27: under a positive limit L set once, the count of messages stays
\* between 0 and L, and at most L + 1 entries are pushed on the queue between
\* two resets (and before the first): at most L messages and one throttle
\* message, whatever the severities of the records, the changes of the
\* verbosity and the runs of the drain callback in between.
C27_WindowBounded ==
    /\ MAX_INTERNAL_MESSAGE_LIMIT > 0
    /\ _messageCount >= 0
    /\ _messageCount <= MAX_INTERNAL_MESSAGE_LIMIT
    /\ appended + sentinels <= MAX_INTERNAL_MESSAGE_LIMIT + 1

C27_Witness ==
    /\ MAX_INTERNAL_MESSAGE_LIMIT = 2
    /\ verboseLogging
    /\ last.op = "logInternalMessage"
    /\ last.severity = WARNING
    /\ appended = 2
    /\ sentinels = 1
    /\ queue = <<last.message, ThrottleObj>>

\* C28: a run of the drain callback leaves the count of messages and the
\* limit as they were, so that once the throttle message was queued, records
\* are dropped until the next reset, also after a run has emptied the queue.
C28_DrainKeepsThrottle ==
    [][ /\ last'.op = "pollInteralLogs"
           => /\ _messageCount' = _messageCount
              /\ MAX_INTERNAL_MESSAGE_LIMIT' = MAX_INTERNAL_MESSAGE_LIMIT
        /\ (last'.op = "logInternalMessage" /\ sentinels >= 1)
           => /\ queue' = queue
              /\ _messageCount' = _messageCount ]_vars

C28_Witness ==
    /\ pc = "idle"
    /\ sentinels = 1
    /\ MAX_INTERNAL_MESSAGE_LIMIT = 2
    /\ _messageCount = 2
    /\ last.op = "logInternalMessage"
    /\ last.severity = CRITICAL
    /\ queue = <<>>

\* C29 as stated: a record call leaves the text of every entry of the queue
\* as it was, also when it is passed a message object that is in the queue,
\* and the text of every message the drain callback emits carries one prefix.
C29_QueuedTextKept ==
    [][ /\ last'.op \in RecordOps
           => \A k \in 1..Len(queue) :
                 heap'[queue[k]].message = heap[queue[k]].message
        /\ \A k \in 1..Len(emitted') :
              emitted'[k].message \in Objs
              => /\ Len(emitted'[k].text) = 2
                 /\ emitted'[k].text[1] \in {AiUserActionablePrefix,
                                             AiNonUserActionablePrefix} ]_vars

====
